---------------------------- MODULE Spec2Model ----------------------------
(***************************************************************************)
(* A model of the ecflux package (src/src/ecflux): the fixed-count TKE     *)
(* reducer, the time-bucket covariance and momentum reducers and the       *)
(* ecflux dispatcher.                                                      *)
(*                                                                         *)
(* Numbers are exact rationals <<num, den>> with den > 0, in lowest terms. *)
(* The float NaN, which pandas also uses for a missing cell, is <<0, 0>>.  *)
(* A square root is kept as coef * sqrt(rad).                              *)
(***************************************************************************)
EXTENDS Integers, Sequences, FiniteSets, TLC

VARIABLES df, pc, call, i, tke_list, time_midpoints, result, err, reads

vars == <<df, pc, call, i, tke_list, time_midpoints, result, err, reads>>

(***************************************************************************)
(* Bounds of the model.                                                    *)
(***************************************************************************)
MaxRows == 4
MaxFullRows == 2
MaxBucketRows == 3
MaxTauRows == 2

(***************************************************************************)
(* Rational arithmetic with NaN.                                           *)
(***************************************************************************)
NaN == <<0, 0>>

IsNaN(q) == q[2] = 0

Abs(n) == IF n < 0 THEN -n ELSE n

RECURSIVE GCD(_, _)
GCD(a, b) == IF b = 0 THEN a ELSE GCD(b, a % b)

Norm(n, d) ==
    IF d = 0 THEN NaN
    ELSE LET g == GCD(Abs(n), Abs(d))
             s == IF d < 0 THEN -1 ELSE 1
         IN  <<s * (n \div g), s * (d \div g)>>

Rat(n) == <<n, 1>>

\* V1(F, a) and V2(F, a, b) are F(a) and F(a, b), with the arguments
\* evaluated once before F uses them.
V1(F(_), a) == CHOOSE r \in { F(x) : x \in {a} } : TRUE

V2(F(_, _), a, b) == CHOOSE r \in { F(x, y) : x \in {a}, y \in {b} } : TRUE

RAdd(p, q) ==
    V2(LAMBDA a, b :
          IF IsNaN(a) \/ IsNaN(b) THEN NaN
          ELSE Norm(a[1] * b[2] + b[1] * a[2], a[2] * b[2]),
       p, q)

RNeg(p) == V1(LAMBDA a : IF IsNaN(a) THEN NaN ELSE <<-a[1], a[2]>>, p)

RSub(p, q) == RAdd(p, RNeg(q))

\* the factors are reduced crosswise before they are multiplied
RMul(p, q) ==
    V2(LAMBDA a, b :
          IF IsNaN(a) \/ IsNaN(b) THEN NaN
          ELSE V2(LAMBDA c, d : Norm(c[1] * d[1], c[2] * d[2]),
                  Norm(a[1], b[2]), Norm(b[1], a[2])),
       p, q)

\* numpy float division: x / 0 is not raised; 0 / 0 is NaN
RDiv(p, q) ==
    V2(LAMBDA a, b :
          IF IsNaN(a) \/ IsNaN(b) \/ b[1] = 0 THEN NaN
          ELSE RMul(a, Norm(b[2], b[1])),
       p, q)

Half == <<1, 2>>

(***************************************************************************)
(* pandas Series: a sequence of numbers; reductions skip NaN.              *)
(***************************************************************************)
RECURSIVE SumFrom(_, _)
SumFrom(s, j) == IF j > Len(s) THEN Rat(0) ELSE RAdd(s[j], SumFrom(s, j + 1))

SumSeq(s) == V1(LAMBDA a : SumFrom(a, 1), s)

NotNa(s) == SelectSeq(s, LAMBDA x : ~IsNaN(x))

\* Series.mean(), also what np.mean(Series) dispatches to
SeriesMean(s) ==
    V1(LAMBDA p : IF Len(p) = 0 THEN NaN ELSE RDiv(SumSeq(p), Rat(Len(p))),
       NotNa(s))

\* Series - scalar
SeriesSub(s, m) ==
    V2(LAMBDA a, b : [j \in 1..Len(a) |-> RSub(a[j], b)], s, m)

\* Series * Series on the same index
SeriesMul(s, t) ==
    V2(LAMBDA a, b : [j \in 1..Len(a) |-> RMul(a[j], b[j])], s, t)

\* np.var(Series, ddof) dispatches to Series.var(ddof=ddof), which skips NaN
\* and is NaN when no more than ddof values remain
SeriesVar(s, ddof) ==
    V1(LAMBDA p :
          IF Len(p) <= ddof THEN NaN
          ELSE V1(LAMBDA d : RDiv(SumSeq(SeriesMul(d, d)), Rat(Len(p) - ddof)),
                  SeriesSub(p, SeriesMean(p))),
       NotNa(s))

\* window[col]
Column(rows, col) == [j \in 1..Len(rows) |-> rows[j][col]]

\* df.iloc[a:b] with 0 <= a, in Python's clamped slice semantics
Iloc(rows, a, b) ==
    LET hi == IF b < Len(rows) THEN b ELSE Len(rows)
    IN  IF hi <= a THEN <<>> ELSE SubSeq(rows, a + 1, hi)


(***************************************************************************)
(* Input tables.  A row is a timestamp t and the cells of the columns      *)
(* u, v, w and T; a missing cell is NaN.  Timestamps are start + step * j, *)
(* so the index is increasing.                                             *)
(***************************************************************************)
Vals == {NaN, Rat(0), Rat(1)}

Cells(us, vs, ws, Ts) == [u : us, v : vs, w : ws, T : Ts]

MkTable(f, start, step) ==
    [j \in 1..Len(f) |->
        [t |-> start + step * (j - 1),
         u |-> f[j].u, v |-> f[j].v, w |-> f[j].w, T |-> f[j].T]]

\* df is a table of at most maxLen rows over the given cells
TableOver(cells, maxLen, starts, steps) ==
    \E n \in 0..maxLen, s \in starts, d \in steps :
        \E f \in [1..n -> cells] : df = MkTable(f, s, d)

Cell(u, v, w, T) == [u |-> u, v |-> v, w |-> w, T |-> T]

\* Rows of the longer wind tables: a calm row and rows in which the
\* components differ, one with u missing and one with v missing.
WindRows ==
    { Cell(Rat(0), Rat(0), Rat(0), NaN),
      Cell(Rat(1), Rat(0), Rat(2), NaN),
      Cell(NaN,    Rat(1), Rat(1), NaN),
      Cell(Rat(3), NaN,    Rat(0), NaN) }

\* Rows of the short wind tables: every combination of these cell values.
FullWindRows == Cells(Vals, {Rat(0), Rat(1)}, {NaN, Rat(2)}, {NaN})

TkeTables ==
    \/ TableOver(FullWindRows, MaxFullRows, {100}, {3})
    \/ TableOver(WindRows, MaxRows, {100}, {3})

WindowSizes == -1..(MaxRows + 1)

NoCall == [op |-> "none"]
NoResult == [kind |-> "none"]

InitCommon ==
    /\ pc = "idle"
    /\ call = NoCall
    /\ i = 0
    /\ tke_list = <<>>
    /\ time_midpoints = <<>>
    /\ result = NoResult
    /\ err = "none"
    /\ reads = {}

(***************************************************************************)
(* tke of flux.py, one loop iteration per step.                            *)
(***************************************************************************)
\* variant: numpy's default ddof=0
flux_var_prime_population(window, col) ==
    LET x == Column(window, col)
    IN  SeriesVar(SeriesSub(x, SeriesMean(x)), 0)

\* np.var(x_prime, ddof=1) of x_prime = window[x] - window[x].mean()
flux_var_prime(window, col) ==
    LET x == Column(window, col)
    IN  SeriesVar(SeriesSub(x, SeriesMean(x)), 1)

flux_tke_val(window, u, v, w) ==
    RMul(Half, RAdd(RAdd(flux_var_prime(window, u), flux_var_prime(window, v)),
                    flux_var_prime(window, w)))

\* raw_df.iloc[i:i+window_size]
flux_window(rows, start, window_size) == Iloc(rows, start, start + window_size)

\* variant: a window is skipped only when it is too short to hold its midpoint
flux_incomplete_midpoint(window, window_size) == Len(window) < (window_size \div 2) + 1

\* "Skip incomplete windows"
flux_incomplete(window, window_size) == Len(window) < window_size

\* variant: the midpoint taken as (window_size - 1) // 2
flux_midpoint_low(window, window_size) == window[((window_size - 1) \div 2) + 1].t

\* window.index[window_size // 2]
flux_midpoint(window, window_size) == window[(window_size \div 2) + 1].t

\* range(0, len(raw_df), window_size) raises ValueError for a zero step
flux_tke_call(window_size) ==
    /\ pc = "idle"
    /\ call' = [op |-> "flux.tke", window_size |-> window_size,
                u |-> "u", v |-> "v", w |-> "w"]
    /\ tke_list' = <<>>
    /\ time_midpoints' = <<>>
    /\ i' = 0
    /\ IF window_size = 0
         THEN pc' = "raised" /\ err' = "ValueError: range() arg 3 must not be zero"
         ELSE pc' = "loop" /\ err' = err
    /\ UNCHANGED <<df, result, reads>>

\* the range still yields a value: only a positive step reaches len(raw_df)
RangeHasNext(window_size) == window_size > 0 /\ i < Len(df)

flux_tke_iter ==
    /\ pc = "loop"
    /\ call.op = "flux.tke"
    /\ RangeHasNext(call.window_size)
    /\ LET k == call.window_size
           window == flux_window(df, i, k)
       IN  IF flux_incomplete(window, k)
             THEN UNCHANGED <<tke_list, time_midpoints, reads>>
             ELSE /\ tke_list' =
                        Append(tke_list, flux_tke_val(window, call.u, call.v, call.w))
                  /\ time_midpoints' = Append(time_midpoints, flux_midpoint(window, k))
                  /\ reads' = reads \cup {call.u, call.v, call.w}
    /\ i' = i + call.window_size
    /\ UNCHANGED <<df, pc, call, result, err>>

flux_tke_return ==
    /\ pc = "loop"
    /\ call.op = "flux.tke"
    /\ ~RangeHasNext(call.window_size)
    /\ pc' = "done"
    /\ result' = [kind |-> "tke", tke_values |-> tke_list, times |-> time_midpoints]
    /\ UNCHANGED <<df, call, i, tke_list, time_midpoints, err, reads>>

(***************************************************************************)
(* tke of tke.py, the same loop under its own names.                       *)
(***************************************************************************)
\* variant: numpy's default ddof=0
tke_var_prime_population(window, col) ==
    LET x == Column(window, col)
    IN  SeriesVar(SeriesSub(x, SeriesMean(x)), 0)

tke_var_prime(window, col) ==
    LET x == Column(window, col)
    IN  SeriesVar(SeriesSub(x, SeriesMean(x)), 1)

tke_tke_val(window, u_col, v_col, w_col) ==
    RMul(Half, RAdd(RAdd(tke_var_prime(window, u_col), tke_var_prime(window, v_col)),
                    tke_var_prime(window, w_col)))

tke_window(rows, start, window_size) == Iloc(rows, start, start + window_size)

tke_incomplete(window, window_size) == Len(window) < window_size

tke_midpoint(window, window_size) == window[(window_size \div 2) + 1].t

tke_tke_call(window_size) ==
    /\ pc = "idle"
    /\ call' = [op |-> "tke.tke", window_size |-> window_size,
                u |-> "u", v |-> "v", w |-> "w"]
    /\ tke_list' = <<>>
    /\ time_midpoints' = <<>>
    /\ i' = 0
    /\ IF window_size = 0
         THEN pc' = "raised" /\ err' = "ValueError: range() arg 3 must not be zero"
         ELSE pc' = "loop" /\ err' = err
    /\ UNCHANGED <<df, result, reads>>

tke_tke_iter ==
    /\ pc = "loop"
    /\ call.op = "tke.tke"
    /\ RangeHasNext(call.window_size)
    /\ LET k == call.window_size
           window == tke_window(df, i, k)
       IN  IF tke_incomplete(window, k)
             THEN UNCHANGED <<tke_list, time_midpoints, reads>>
             ELSE /\ tke_list' =
                        Append(tke_list, tke_tke_val(window, call.u, call.v, call.w))
                  /\ time_midpoints' = Append(time_midpoints, tke_midpoint(window, k))
                  /\ reads' = reads \cup {call.u, call.v, call.w}
    /\ i' = i + call.window_size
    /\ UNCHANGED <<df, pc, call, result, err>>

tke_tke_return ==
    /\ pc = "loop"
    /\ call.op = "tke.tke"
    /\ ~RangeHasNext(call.window_size)
    /\ pc' = "done"
    /\ result' = [kind |-> "tke", tke_values |-> tke_list, times |-> time_midpoints]
    /\ UNCHANGED <<df, call, i, tke_list, time_midpoints, err, reads>>

InitTke == TkeTables /\ InitCommon

NextTke ==
    \/ \E k \in WindowSizes : flux_tke_call(k)
    \/ flux_tke_iter
    \/ flux_tke_return
    \/ \E k \in WindowSizes : tke_tke_call(k)
    \/ tke_tke_iter
    \/ tke_tke_return

SpecTke == InitTke /\ [][NextTke]_vars


\* tke called with window sizes of at most 1, on tables whose single rows
\* range over all cell values
InitTkeLowK ==
    /\ \/ TableOver(Cells(Vals, Vals, Vals, {NaN}), 1, {100}, {3})
       \/ TableOver(WindRows, MaxRows, {100}, {3})
    /\ InitCommon

NextTkeLowK ==
    \/ \E k \in -2..1 : flux_tke_call(k)
    \/ flux_tke_iter
    \/ flux_tke_return
    \/ \E k \in -2..1 : tke_tke_call(k)
    \/ tke_tke_iter
    \/ tke_tke_return

\* the interpreter runs a started loop to its end
FairSpecTkeLowK ==
    /\ InitTkeLowK
    /\ [][NextTkeLowK]_vars
    /\ WF_vars(flux_tke_iter) /\ WF_vars(flux_tke_return)
    /\ WF_vars(tke_tke_iter) /\ WF_vars(tke_tke_return)

(***************************************************************************)
(* Properties of tke.                                                      *)
(***************************************************************************)
IsTke == call.op \in {"flux.tke", "tke.tke"}

Sq(x) == RMul(x, x)

\* sample variance of the values present in x, in closed form:
\* (sum x^2 - (sum x)^2 / m) / (m - 1) over the m values present
RefVar(x) ==
    LET p == NotNa(x)
        m == Len(p)
    IN  IF m <= 1 THEN NaN
        ELSE RDiv(RSub(SumSeq([j \in 1..m |-> Sq(p[j])]),
                       RDiv(Sq(SumSeq(p)), Rat(m))),
                  Rat(m - 1))

RefTke(window) ==
    RMul(Half, RAdd(RAdd(RefVar(Column(window, "u")), RefVar(Column(window, "v"))),
                    RefVar(Column(window, "w"))))

\* rows j*k .. j*k+k-1 of the table, for the j-th window counted from 1
WindowRows(j, k) == SubSeq(df, (j - 1) * k + 1, j * k)

\* C1: for window_size k >= 1 tke returns exactly floor(N/k) windows, window j
\* computed from rows j*k .. j*k+k-1; a trailing group of fewer than k rows
\* gives neither an output nor an error.
C1_FixedCountWindows ==
    (IsTke /\ call.window_size >= 1) =>
        /\ pc # "raised" /\ err = "none"
        /\ \A j \in 1..Len(tke_list) :
              /\ j * call.window_size <= Len(df)
              /\ tke_list[j] = RefTke(WindowRows(j, call.window_size))
        /\ pc = "done" =>
              /\ Len(result.tke_values) = Len(df) \div call.window_size
              /\ result.tke_values = tke_list

C1_Witness ==
    /\ IsTke /\ pc = "done"
    /\ call.window_size = 2 /\ Len(df) = 3
    /\ Len(result.tke_values) = 1

\* The variance with the divisor k - 1 of the window size: the sum of the
\* squared deviations over k - 1, a missing value either passed over
\* (skipna) or making the sum NaN.
WindowSizeVar(x, k, skipna) ==
    LET p == IF skipna THEN NotNa(x) ELSE x
        d == SeriesSub(p, SeriesMean(x))
    IN  RDiv(SumSeq(SeriesMul(d, d)), Rat(k - 1))

WindowSizeTke(window, k, skipna) ==
    RMul(Half, RAdd(RAdd(WindowSizeVar(Column(window, "u"), k, skipna),
                         WindowSizeVar(Column(window, "v"), k, skipna)),
                    WindowSizeVar(Column(window, "w"), k, skipna)))

\* C6 as stated: every complete window of k >= 2 rows yields
\* 0.5 * (var_u + var_v + var_w), each var with the divisor k - 1.
C6_DivisorWindowSize ==
    (IsTke /\ call.window_size >= 2) =>
        \A j \in 1..Len(tke_list) :
            \E skipna \in BOOLEAN :
                tke_list[j] =
                    WindowSizeTke(WindowRows(j, call.window_size), call.window_size, skipna)

IsConstant(x) == \A a, b \in 1..Len(x) : x[a] = x[b]

Others(c) == {"u", "v", "w"} \ {c}

\* C6: every complete window of k >= 2 rows yields 0.5 * (var_u + var_v + var_w),
\* each var the sample variance of the values of that component present in the
\* window, with divisor m - 1 for m such values (m = k when none is missing) and
\* undefined for m <= 1; a component that is present and constant over the
\* window contributes 0.
C6_SampleVariance ==
    (IsTke /\ call.window_size >= 2) =>
        \A j \in 1..Len(tke_list) :
            LET win == WindowRows(j, call.window_size)
            IN  /\ tke_list[j] = RefTke(win)
                /\ \A c \in {"u", "v", "w"} :
                      (NotNa(Column(win, c)) = Column(win, c) /\ IsConstant(Column(win, c)))
                        => LET o == CHOOSE pr \in Others(c) \X Others(c) : pr[1] # pr[2]
                           IN  tke_list[j] =
                                 RMul(Half, RAdd(RefVar(Column(win, o[1])),
                                                 RefVar(Column(win, o[2]))))

C6_Witness ==
    /\ IsTke /\ pc = "done" /\ call.window_size = 2
    /\ Len(tke_list) >= 1
    /\ LET win == WindowRows(1, 2)
       IN  \E c \in {"u", "v", "w"} :
              /\ IsConstant(Column(win, c)) /\ ~IsNaN(win[1][c])
              /\ \A o \in Others(c) :
                    ~IsNaN(RefVar(Column(win, o))) /\ RefVar(Column(win, o)) # Rat(0)
              /\ ~IsNaN(tke_list[1]) /\ tke_list[1] # Rat(0)

\* C9: the two output sequences have equal length after every iteration and at
\* return, and the j-th timestamp (j from 0) is the timestamp of the table row
\* at position j*k + k // 2.
C9_MidpointTimestamps ==
    IsTke =>
        /\ Len(tke_list) = Len(time_midpoints)
        /\ \A j \in 1..Len(time_midpoints) :
              LET pos == (j - 1) * call.window_size + (call.window_size \div 2)
              IN  pos < Len(df) /\ time_midpoints[j] = df[pos + 1].t
        /\ pc = "done" => Len(result.tke_values) = Len(result.times)
                          /\ result.times = time_midpoints

C9_Witness ==
    /\ IsTke /\ pc = "loop"
    /\ call.window_size = 2
    /\ Len(time_midpoints) = 2
    /\ time_midpoints[2] = df[4].t

\* C10 as stated: a window_size of at most 1 never makes tke raise.
C10_LowWindowSizeNeverRaises ==
    (IsTke /\ call.window_size <= 1) => (pc # "raised" /\ err = "none")

AllNaN(s) == \A j \in 1..Len(s) : IsNaN(s[j])

\* C10: tke does not special-case small window sizes.  With window_size = 1 or
\* window_size < 0 the call raises nothing and terminates, and every emitted
\* value is NaN; with window_size = 0 the zero range step raises ValueError
\* and nothing is returned.
C10_LowWindowSize ==
    /\ [] ((IsTke /\ call.window_size <= 1 /\ call.window_size # 0) =>
              (pc # "raised" /\ err = "none" /\ AllNaN(tke_list)
                /\ (pc = "done" => AllNaN(result.tke_values))))
    /\ [] ((IsTke /\ call.window_size = 0) =>
              (pc = "raised" /\ err # "none" /\ result = NoResult))
    /\ ((IsTke /\ call.window_size <= 1 /\ call.window_size # 0) ~> (pc = "done"))

C10_Witness ==
    /\ IsTke /\ pc = "done" /\ call.window_size = 1
    /\ Len(result.tke_values) = Len(df) /\ Len(df) >= 2
    /\ AllNaN(result.tke_values)


(***************************************************************************)
(* Time buckets: df.groupby(pd.Grouper(freq=freq)).apply(f).  The bins are *)
(* aligned to the epoch, left-closed, and run from the bin of the first    *)
(* row to the bin of the last row; f is applied to every bin, an empty     *)
(* bin included.  An empty frame has no bins.                              *)
(***************************************************************************)
Bucket(t, freq) == (t \div freq) * freq

BinLabels(rows, freq) ==
    IF Len(rows) = 0 THEN <<>>
    ELSE LET first == Bucket(rows[1].t, freq)
             last == Bucket(rows[Len(rows)].t, freq)
         IN  [j \in 1..(((last - first) \div freq) + 1) |-> first + (j - 1) * freq]

Group(rows, label, freq) == SelectSeq(rows, LAMBDA r : Bucket(r.t, freq) = label)

\* df[cols].dropna(): the rows in which every column of cols is present
DropNa(rows, cols) == SelectSeq(rows, LAMBDA r : \A c \in cols : ~IsNaN(r[c]))

(***************************************************************************)
(* covariance.py                                                           *)
(***************************************************************************)
\* variant: the Bessel-corrected covariance, sum(w' * c') / (n - 1)
compute_window_covariance_bessel(g, vertical_var, scalar_var) ==
    LET w_prime == SeriesSub(Column(g, vertical_var), SeriesMean(Column(g, vertical_var)))
        c_prime == SeriesSub(Column(g, scalar_var), SeriesMean(Column(g, scalar_var)))
    IN  RDiv(SumSeq(NotNa(SeriesMul(w_prime, c_prime))), Rat(Len(g) - 1))

compute_window_covariance(g, vertical_var, scalar_var) ==
    LET w_prime == SeriesSub(Column(g, vertical_var), SeriesMean(Column(g, vertical_var)))
        c_prime == SeriesSub(Column(g, scalar_var), SeriesMean(Column(g, scalar_var)))
    IN  SeriesMean(SeriesMul(w_prime, c_prime))

\* variant: only the rows without vertical wind are dropped
covariance_dropna_vertical(rows, vertical_var, scalar_var) == DropNa(rows, {vertical_var})

\* variant: no row is dropped
covariance_dropna_none(rows, vertical_var, scalar_var) == rows

covariance_dropna(rows, vertical_var, scalar_var) ==
    DropNa(rows, {vertical_var, scalar_var})

covariance_flux(rows, vertical_var, scalar_var, freq, scale_factor) ==
    LET d == covariance_dropna(rows, vertical_var, scalar_var)
        labels == BinLabels(d, freq)
    IN  [kind |-> "series",
         name |-> <<scalar_var, "_flux">>,
         data |-> [j \in 1..Len(labels) |->
                     [key |-> labels[j],
                      val |-> RMul(compute_window_covariance(
                                       Group(d, labels[j], freq), vertical_var, scalar_var),
                                   scale_factor)]]]

covariance_flux_call(vertical_var, scalar_var, freq, scale_factor) ==
    /\ pc = "idle"
    /\ call' = [op |-> "covariance_flux", vertical_var |-> vertical_var,
                scalar_var |-> scalar_var, freq |-> freq, scale_factor |-> scale_factor]
    /\ result' = covariance_flux(df, vertical_var, scalar_var, freq, scale_factor)
    /\ reads' = {vertical_var, scalar_var}
    /\ pc' = "done"
    /\ UNCHANGED <<df, i, tke_list, time_midpoints, err>>

(***************************************************************************)
(* momentum.py                                                             *)
(***************************************************************************)
ISqrtFrom(n, r) == CHOOSE x \in r..n : x * x <= n /\ (x + 1) * (x + 1) > n

ISqrt(n) == ISqrtFrom(n, 0)

IsSquare(n) == ISqrt(n) * ISqrt(n) = n

\* rho * np.sqrt(x): a number coef * sqrt(rad), with rad = 1 when x is the
\* square of a rational; sqrt(NaN) is NaN
ScaledSqrt(rho, x) ==
    IF IsNaN(x) \/ IsNaN(rho) THEN [coef |-> NaN, rad |-> Rat(1)]
    ELSE IF x[1] = 0 \/ rho[1] = 0 THEN [coef |-> Rat(0), rad |-> Rat(1)]
    ELSE IF IsSquare(x[1]) /\ IsSquare(x[2])
           THEN [coef |-> RMul(rho, <<ISqrt(x[1]), ISqrt(x[2])>>), rad |-> Rat(1)]
           ELSE [coef |-> rho, rad |-> x]

momentum_compute_tau_window(g, u_col, v_col, w_col, rho) ==
    LET u_prime == SeriesSub(Column(g, u_col), SeriesMean(Column(g, u_col)))
        v_prime == SeriesSub(Column(g, v_col), SeriesMean(Column(g, v_col)))
        w_prime == SeriesSub(Column(g, w_col), SeriesMean(Column(g, w_col)))
        uw_cov == SeriesMean(SeriesMul(u_prime, w_prime))
        vw_cov == SeriesMean(SeriesMul(v_prime, w_prime))
    IN  ScaledSqrt(rho, RAdd(RMul(uw_cov, uw_cov), RMul(vw_cov, vw_cov)))

momentum_flux(rows, freq, u_col, v_col, w_col, rho) ==
    LET d == DropNa(rows, {u_col, v_col, w_col})
        labels == BinLabels(d, freq)
    IN  [kind |-> "series",
         name |-> <<"tau_N_per_m2">>,
         data |-> [j \in 1..Len(labels) |->
                     [key |-> labels[j],
                      val |-> momentum_compute_tau_window(
                                  Group(d, labels[j], freq), u_col, v_col, w_col, rho)]]]

momentum_flux_call(freq, u_col, v_col, w_col, rho) ==
    /\ pc = "idle"
    /\ call' = [op |-> "momentum_flux", freq |-> freq, u |-> u_col, v |-> v_col,
                w |-> w_col, rho |-> rho]
    /\ result' = momentum_flux(df, freq, u_col, v_col, w_col, rho)
    /\ reads' = {u_col, v_col, w_col}
    /\ pc' = "done"
    /\ UNCHANGED <<df, i, tke_list, time_midpoints, err>>

(***************************************************************************)
(* flux.py: the helpers of ecflux and the dispatcher.                      *)
(***************************************************************************)
Rename(series, name) == [series EXCEPT !.name = <<name>>]

_sensible_heat_flux(rows, freq, var_col, wind_col, rho, cp) ==
    Rename(covariance_flux(rows, wind_col, var_col, freq, RMul(rho, cp)), "H_W_per_m2")

_latent_heat_flux(rows, freq, var_col, wind_col, rho, Lv) ==
    Rename(covariance_flux(rows, wind_col, var_col, freq, RMul(rho, Lv)), "LE_W_per_m2")

\* variant: the v component left out of the magnitude
compute_tau_window_uw(g, u_col, v_col, w_col, rho) ==
    LET u_prime == SeriesSub(Column(g, u_col), SeriesMean(Column(g, u_col)))
        w_prime == SeriesSub(Column(g, w_col), SeriesMean(Column(g, w_col)))
        uw_cov == SeriesMean(SeriesMul(u_prime, w_prime))
    IN  ScaledSqrt(rho, RMul(uw_cov, uw_cov))

compute_tau_window(g, u_col, v_col, w_col, rho) ==
    LET u_prime == SeriesSub(Column(g, u_col), SeriesMean(Column(g, u_col)))
        v_prime == SeriesSub(Column(g, v_col), SeriesMean(Column(g, v_col)))
        w_prime == SeriesSub(Column(g, w_col), SeriesMean(Column(g, w_col)))
        uw_cov == SeriesMean(SeriesMul(u_prime, w_prime))
        vw_cov == SeriesMean(SeriesMul(v_prime, w_prime))
    IN  ScaledSqrt(rho, RAdd(RMul(uw_cov, uw_cov), RMul(vw_cov, vw_cov)))

_momentum_flux(rows, freq, u_col, v_col, w_col, rho) ==
    LET d == DropNa(rows, {u_col, v_col, w_col})
        labels == BinLabels(d, freq)
    IN  [kind |-> "series",
         name |-> <<"tau_N_per_m2">>,
         data |-> [j \in 1..Len(labels) |->
                     [key |-> labels[j],
                      val |-> compute_tau_window(
                                  Group(d, labels[j], freq), u_col, v_col, w_col, rho)]]]

\* str.upper() on the letters the selectors are written in
UpperChar(c) ==
    CASE c = "h" -> "H" [] c = "l" -> "L" [] c = "e" -> "E" [] c = "t" -> "T"
      [] c = "a" -> "A" [] c = "u" -> "U" [] c = "x" -> "X"
      [] OTHER -> c

Upper(str) == [j \in 1..Len(str) |-> UpperChar(str[j])]

\* the Python value None
None == "<None>"

\* kwargs.get(key, default)
KwGet(kwargs, key, default) == IF key \in DOMAIN kwargs THEN kwargs[key] ELSE default

\* variant: the selector compared without flux.upper()
ecflux_route_cased(flux) ==
    IF flux = <<"H">> THEN "H"
    ELSE IF flux \in {<<"L">>, <<"L", "E">>} THEN "L"
    ELSE IF flux = <<"T", "A", "U">> THEN "TAU"
    ELSE "unknown"

ecflux_route(flux) ==
    LET f == Upper(flux)
    IN  IF f = <<"H">> THEN "H"
        ELSE IF f \in {<<"L">>, <<"L", "E">>} THEN "L"
        ELSE IF f = <<"T", "A", "U">> THEN "TAU"
        ELSE "unknown"

\* variant: the scalar demanded for every flux type
ecflux_missing_scalar_all(route, scalar) == route \in {"H", "L", "TAU"} /\ scalar = None

\* "if scalar is None: raise ValueError(...)" of the two heat branches
ecflux_missing_scalar(route, scalar) == route \in {"H", "L"} /\ scalar = None

ecflux_call(w, scalar, flux, freq, rho, cp, Lv, kwargs) ==
    /\ pc = "idle"
    /\ call' = [op |-> "ecflux", w |-> w, scalar |-> scalar, flux |-> flux, freq |-> freq,
                rho |-> rho, cp |-> cp, Lv |-> Lv, kwargs |-> kwargs]
    /\ LET route == ecflux_route(flux)
       IN  IF ecflux_missing_scalar(route, scalar)
             THEN /\ pc' = "raised"
                  /\ err' = IF route = "H"
                              THEN "ValueError: scalar (temperature) must be specified for sensible heat flux"
                              ELSE "ValueError: scalar (specific humidity) must be specified for latent heat flux"
                  /\ UNCHANGED <<result, reads>>
           ELSE IF route = "H"
             THEN /\ pc' = "done"
                  /\ result' = _sensible_heat_flux(df, freq, scalar, w, rho, cp)
                  /\ reads' = {w, scalar}
                  /\ err' = err
           ELSE IF route = "L"
             THEN /\ pc' = "done"
                  /\ result' = _latent_heat_flux(df, freq, scalar, w, rho, Lv)
                  /\ reads' = {w, scalar}
                  /\ err' = err
           ELSE IF route = "TAU"
             THEN LET u_col == KwGet(kwargs, "u", "u")
                      v_col == KwGet(kwargs, "v", "v")
                  IN  /\ pc' = "done"
                      /\ result' = _momentum_flux(df, freq, u_col, v_col, w, rho)
                      /\ reads' = {u_col, v_col, w}
                      /\ err' = err
           ELSE /\ pc' = "raised"
                /\ err' = "ValueError: Unknown flux type"
                /\ UNCHANGED <<result, reads>>
    /\ UNCHANGED <<df, i, tke_list, time_midpoints>>

(***************************************************************************)
(* Specifications of the time-bucket reducers and of the dispatcher.       *)
(***************************************************************************)
Starts == {0, 1}
Steps == {1, 2}
Freqs == {1, 2, 4}
DefaultRho == <<6, 5>>
DefaultCp == Rat(1005)
DefaultLv == Rat(2500000)
Rhos == {DefaultRho, Rat(2)}

\* w = [1, 2, 3, 4] and T = [10, 11, 12, 13] at 1 s intervals
ScenarioCov ==
    MkTable([j \in 1..4 |-> Cell(NaN, NaN, Rat(j), Rat(9 + j))], 0, 1)

\* u' = [1, -1], w' = [1, -1], v' = [0, 0]
ScenarioTau ==
    MkTable(<<Cell(Rat(1), Rat(0), Rat(1), NaN), Cell(Rat(-1), Rat(0), Rat(-1), NaN)>>, 0, 1)

\* all four columns, with a missing scalar in the first row
ScenarioMixed ==
    MkTable(<<Cell(Rat(1), Rat(0), Rat(1), NaN), Cell(Rat(0), Rat(1), Rat(2), Rat(1)),
              Cell(Rat(2), Rat(2), Rat(0), Rat(3))>>, 1, 1)

CovTables ==
    \/ TableOver(Cells({NaN}, {NaN}, Vals, Vals), MaxBucketRows, Starts, {1})
    \/ df = ScenarioCov

CovFreqs == {2, 4}

InitCov == CovTables /\ InitCommon

NextCov ==
    \E pair \in {<<"w", "T">>, <<"T", "w">>}, freq \in CovFreqs, scale \in {Rat(1), Rat(3)} :
        covariance_flux_call(pair[1], pair[2], freq, scale)

SpecCov == InitCov /\ [][NextCov]_vars

TauTables ==
    \/ TableOver(Cells({Rat(0), Rat(1)}, {Rat(0), Rat(1)}, Vals, {NaN}), MaxTauRows, {0}, {1})
    \/ TableOver(WindRows, MaxRows, {0}, {1})
    \/ df \in {ScenarioTau, ScenarioMixed}

NoKwargs == <<>>

\* a selector with the kwargs passed along with it
TauSelectors ==
    { <<<<"T", "a", "u">>, NoKwargs>>, <<<<"t", "A", "U">>, [u |-> "u", v |-> "v"]>> }

TauFreqs == {1, 2}

InitTau == TauTables /\ InitCommon

NextTau ==
    \/ \E freq \in TauFreqs, rho \in Rhos : momentum_flux_call(freq, "u", "v", "w", rho)
    \/ \E sel \in TauSelectors, freq \in TauFreqs, rho \in Rhos :
          ecflux_call("w", None, sel[1], freq, rho, DefaultCp, DefaultLv, sel[2])

SpecTau == InitTau /\ [][NextTau]_vars

BucketTables == TableOver(WindRows, MaxRows, Starts, Steps)

InitBuckets == BucketTables /\ InitCommon

NextBuckets ==
    \/ \E pair \in {<<"w", "u">>, <<"v", "w">>}, freq \in Freqs :
          covariance_flux_call(pair[1], pair[2], freq, Rat(1))
    \/ \E freq \in Freqs :
          ecflux_call("w", None, <<"T", "a", "u">>, freq, DefaultRho, DefaultCp, DefaultLv,
                      NoKwargs)

SpecBuckets == InitBuckets /\ [][NextBuckets]_vars

Selectors ==
    { <<"H">>, <<"h">>, <<"L">>, <<"l">>, <<"L", "E">>, <<"l", "e">>, <<"L", "e">>,
      <<"l", "E">>, <<"T", "a", "u">>, <<"T", "A", "U">>, <<"t", "a", "u">>,
      <<"t", "A", "u">>, <<"X">>, <<"x">>, <<>>, <<"H", "E">>, <<"E">>, <<"T", "A">>,
      <<"L", "E", "E">>, <<"T">>, <<"T", "a", "u", "x">> }

EcfluxTables == {<<>>, ScenarioCov, ScenarioTau, ScenarioMixed}

InitEcflux == df \in EcfluxTables /\ InitCommon

NextEcflux ==
    \E flux \in Selectors, scalar \in {None, "T"}, freq \in {2, 4},
       kwargs \in {NoKwargs, [u |-> "v", v |-> "u"]} :
        ecflux_call("w", scalar, flux, freq, DefaultRho, DefaultCp, DefaultLv, kwargs)

SpecEcflux == InitEcflux /\ [][NextEcflux]_vars


(***************************************************************************)
(* Properties of the time-bucket reducers.                                 *)
(***************************************************************************)
\* population covariance of two columns of equal length without gaps, in
\* closed form: (n * sum(x*y) - sum(x) * sum(y)) / n^2
RefCov(x, y) ==
    LET n == Len(x)
    IN  IF n = 0 THEN NaN
        ELSE RDiv(RSub(RMul(Rat(n), SumSeq([j \in 1..n |-> RMul(x[j], y[j])])),
                       RMul(SumSeq(x), SumSeq(y))),
                  Rat(n * n))

\* the rows of the table in the bucket starting at label in which all of cols
\* are present
UsableIn(label, freq, cols) ==
    SelectSeq(df, LAMBDA r : Bucket(r.t, freq) = label /\ \A c \in cols : ~IsNaN(r[c]))

IsCov == pc = "done" /\ call.op = "covariance_flux"

\* C2: every bucket of covariance_flux holds scale_factor times the population
\* covariance (divisor n) of the two columns over the rows of the bucket in
\* which both are present; w = [1,2,3,4], T = [10,11,12,13] in one bucket with
\* scale_factor 1 gives 1.25.
C2_PopulationCovariance ==
    IsCov =>
        /\ \A j \in 1..Len(result.data) :
              LET e == result.data[j]
                  rows == UsableIn(e.key, call.freq, {call.vertical_var, call.scalar_var})
              IN  e.val = RMul(call.scale_factor,
                               RefCov(Column(rows, call.vertical_var),
                                      Column(rows, call.scalar_var)))
        /\ (df = ScenarioCov /\ call.freq = 4 /\ call.scale_factor = Rat(1))
              => result.data = <<[key |-> 0, val |-> <<5, 4>>]>>

C2_Witness ==
    /\ IsCov /\ df = ScenarioCov /\ call.freq = 4 /\ call.scale_factor = Rat(1)
    /\ call.vertical_var = "w"
    /\ result.data[1].val = <<5, 4>>

\* C8: covariance_flux(df, a, b) and covariance_flux(df, b, a) with
\* scale_factor 1 have the same windows and the same value in every window.
C8_Symmetric ==
    (IsCov /\ call.scale_factor = Rat(1)) =>
        result.data =
            covariance_flux(df, call.scalar_var, call.vertical_var, call.freq, Rat(1)).data

C8_Witness ==
    /\ IsCov /\ call.scale_factor = Rat(1)
    /\ Len(df) = 3 /\ IsNaN(df[1].w) /\ IsNaN(df[3].T)
    /\ Len(result.data) = 1
    /\ \E j \in 1..Len(df) : ~IsNaN(df[j].T) /\ df[j].T # df[j].w

IsSeries == pc = "done" /\ result.kind = "series"

CallCols ==
    IF call.op = "covariance_flux" THEN {call.vertical_var, call.scalar_var}
    ELSE IF call.op = "momentum_flux" THEN {call.u, call.v, call.w}
    ELSE {KwGet(call.kwargs, "u", "u"), KwGet(call.kwargs, "v", "v"), call.w}

IsTauCall ==
    /\ pc = "done"
    /\ \/ call.op = "momentum_flux"
       \/ call.op = "ecflux" /\ result.name = <<"tau_N_per_m2">>

ValNaN(v) == IF IsTauCall THEN IsNaN(v.coef) ELSE IsNaN(v)

Keys == [j \in 1..Len(result.data) |-> result.data[j].key]

\* C3 as stated: every bucket holding a sample of the table is in the output,
\* in chronological order, and a bucket without usable rows holds NaN.
C3_EverySampledBucket ==
    IsSeries =>
        /\ \A r \in 1..Len(df) : \E j \in 1..Len(Keys) : Keys[j] = Bucket(df[r].t, call.freq)
        /\ \A j \in 1..Len(Keys) :
              /\ j > 1 => Keys[j - 1] < Keys[j]
              /\ UsableIn(Keys[j], call.freq, CallCols) = <<>> => ValNaN(result.data[j].val)

\* C3: the output holds one entry for every bucket from the bucket of the first
\* usable row (a row with all named columns present) to the bucket of the last
\* usable row, in chronological order and keyed by bucket start; a bucket in
\* between without usable rows holds NaN and every other bucket a number;
\* buckets before the first or after the last usable row are absent, and the
\* output is empty when no row is usable.
C3_BucketsBetweenUsableRows ==
    IsSeries =>
        LET usable == DropNa(df, CallCols)
            first == Bucket(usable[1].t, call.freq)
            last == Bucket(usable[Len(usable)].t, call.freq)
        IN  /\ Len(usable) = 0 => Keys = <<>>
            /\ Len(usable) > 0 =>
                  /\ Len(Keys) = ((last - first) \div call.freq) + 1
                  /\ \A j \in 1..Len(Keys) : Keys[j] = first + (j - 1) * call.freq
            /\ \A j \in 1..Len(Keys) :
                  ValNaN(result.data[j].val) <=> UsableIn(Keys[j], call.freq, CallCols) = <<>>

C3_Witness ==
    /\ IsSeries /\ call.op = "covariance_flux"
    /\ Len(Keys) = 3
    /\ IsNaN(result.data[2].val)
    /\ \E r \in 1..Len(df) : Bucket(df[r].t, call.freq) = Keys[2]
    /\ ~IsNaN(result.data[1].val) /\ ~IsNaN(result.data[3].val)

TauU == IF call.op = "momentum_flux" THEN call.u ELSE KwGet(call.kwargs, "u", "u")
TauV == IF call.op = "momentum_flux" THEN call.v ELSE KwGet(call.kwargs, "v", "v")

\* C7: every bucket of the momentum flux holds rho * sqrt(cov_uw^2 + cov_vw^2)
\* with population covariances over the rows in which u, v and w are present,
\* so tau^2 = rho^2 * (cov_uw^2 + cov_vw^2) and tau >= 0 for rho >= 0;
\* u' = [1,-1], w' = [1,-1], v' = [0,0] gives rho; ecflux with Tau and
\* momentum_flux return the same series.
C7_MomentumFlux ==
    IsTauCall =>
        /\ \A j \in 1..Len(result.data) :
              LET e == result.data[j]
                  rows == UsableIn(e.key, call.freq, {TauU, TauV, call.w})
                  cov_uw == RefCov(Column(rows, TauU), Column(rows, call.w))
                  cov_vw == RefCov(Column(rows, TauV), Column(rows, call.w))
                  sumsq == RAdd(Sq(cov_uw), Sq(cov_vw))
              IN  IF IsNaN(sumsq) THEN IsNaN(e.val.coef)
                  ELSE /\ RMul(Sq(e.val.coef), e.val.rad) = RMul(Sq(call.rho), sumsq)
                       /\ e.val.rad[1] > 0
                       /\ call.rho[1] >= 0 => e.val.coef[1] >= 0
        /\ result = momentum_flux(df, call.freq, TauU, TauV, call.w, call.rho)
        /\ result = _momentum_flux(df, call.freq, TauU, TauV, call.w, call.rho)
        /\ (df = ScenarioTau /\ call.freq = 2)
              => result.data = <<[key |-> 0, val |-> [coef |-> call.rho, rad |-> Rat(1)]]>>

C7_Witness ==
    /\ IsTauCall /\ call.op = "ecflux"
    /\ df = ScenarioTau /\ call.freq = 2
    /\ result.data[1].val = [coef |-> call.rho, rad |-> Rat(1)]

(***************************************************************************)
(* Properties of the dispatcher.                                           *)
(***************************************************************************)
\* the spellings of a word in either letter case
SpellH == {<<a>> : a \in {"H", "h"}}
SpellL == {<<a>> : a \in {"L", "l"}}
SpellLE == {<<a, b>> : a \in {"L", "l"}, b \in {"E", "e"}}
SpellTau == {<<a, b, c>> : a \in {"T", "t"}, b \in {"A", "a"}, c \in {"U", "u"}}

IsEcflux == call.op = "ecflux"

UnknownFlux == "ValueError: Unknown flux type"

\* C4: ecflux accepts exactly the selectors that spell H, L, LE or Tau in either
\* letter case and routes them to sensible heat, latent heat and momentum; any
\* other selector raises the unsupported-flux-type error, whatever the other
\* arguments, without reading the table and without a result.
C4_SelectorDispatch ==
    IsEcflux =>
        /\ pc \in {"done", "raised"}
        /\ call.flux \notin (SpellH \cup SpellL \cup SpellLE \cup SpellTau) =>
              pc = "raised" /\ err = UnknownFlux /\ reads = {} /\ result = NoResult
        /\ call.flux \in (SpellH \cup SpellL \cup SpellLE \cup SpellTau) => err # UnknownFlux
        /\ (call.flux \in SpellH /\ pc = "done") =>
              /\ result.name = <<"H_W_per_m2">>
              /\ result.data = covariance_flux(df, call.w, call.scalar, call.freq,
                                               RMul(call.rho, call.cp)).data
        /\ (call.flux \in SpellL \cup SpellLE /\ pc = "done") =>
              /\ result.name = <<"LE_W_per_m2">>
              /\ result.data = covariance_flux(df, call.w, call.scalar, call.freq,
                                               RMul(call.rho, call.Lv)).data
        /\ call.flux \in SpellTau =>
              /\ pc = "done"
              /\ result = momentum_flux(df, call.freq, TauU, TauV, call.w, call.rho)

C4_Witness ==
    /\ IsEcflux /\ call.flux = <<"X">> /\ call.scalar = "T"
    /\ Len(df) > 0
    /\ pc = "raised" /\ err = UnknownFlux /\ reads = {}

MissingScalar ==
    { "ValueError: scalar (temperature) must be specified for sensible heat flux",
      "ValueError: scalar (specific humidity) must be specified for latent heat flux" }

\* C5: ecflux with H or L/LE and no scalar raises the missing-argument error
\* before anything is computed on the table; with Tau the scalar is not needed
\* and its absence never raises.
C5_MissingScalar ==
    IsEcflux =>
        /\ (call.flux \in SpellH \cup SpellL \cup SpellLE /\ call.scalar = None) =>
              pc = "raised" /\ err \in MissingScalar /\ reads = {} /\ result = NoResult
        /\ (call.flux \in SpellH \cup SpellL \cup SpellLE /\ call.scalar # None) =>
              pc = "done" /\ err = "none"
        /\ call.flux \in SpellTau => pc = "done" /\ err = "none"
        /\ err \in MissingScalar => call.scalar = None

C5_Witness ==
    /\ IsEcflux /\ call.flux = <<"l", "e">> /\ call.scalar = None
    /\ Len(df) > 0
    /\ pc = "raised" /\ err \in MissingScalar /\ reads = {}

=============================================================================
